---- MODULE Spec2Model ----
(***************************************************************************)
(* variable_desired_locations.py: the avar / STAT / fvar rewrite of a      *)
(* compiled variable font (ttfont) from the instance locations declared in *)
(* its Glyphs source (gsfont).                                             *)
(*                                                                         *)
(* Design-space coordinates are whole numbers here; a normalized value is  *)
(* an exact fraction <<n, d>> in lowest terms with d > 0, so that two      *)
(* float dictionary keys are equal exactly when the fractions are.         *)
(***************************************************************************)
EXTENDS Integers, Sequences, FiniteSets, TLC

VARIABLES gsfont, ttfont, loaded, pc, err, saved, call

vars == <<gsfont, ttfont, loaded, pc, err, saved, call>>

(* ------------------------------ bounds -------------------------------- *)

\* gsfont.instances holds at most MaxInstances instances
MaxInstances == 2
\* the arguments of defaultNormalizedValue range over 0..MaxNormCoord
MaxNormCoord == 4
\* gsfont.masters holds at most MaxMasters masters
MaxMasters == 2

(* ----------------------------- fractions ------------------------------ *)

Abs(x) == IF x < 0 THEN -x ELSE x

RECURSIVE Gcd(_, _)
Gcd(a, b) == IF b = 0 THEN a ELSE Gcd(b, a % b)

\* the float n / d, d # 0
Frac(n, d) ==
    LET g == Gcd(Abs(n), Abs(d))
        s == IF d < 0 THEN -1 ELSE 1
    IN  <<(s * n) \div g, (s * d) \div g>>

Zero == <<0, 1>>
One == <<1, 1>>
MinusOne == <<-1, 1>>

FracNeg(a) == <<-a[1], a[2]>>
FracLeq(a, b) == a[1] * b[2] <= b[1] * a[2]
FracLess(a, b) == a[1] * b[2] < b[1] * a[2]

\* a returned value, or a raised exception
Return(v) == [exc |-> "none", val |-> v]
Raise(kind) == [exc |-> kind, val |-> Zero]

(* ----------------------- defaultNormalizedValue ----------------------- *)

\* a plausible slip: the lower branch divides by the upper span
defaultNormalizedValue_upperSpan(axis, instanceValue) ==
    IF instanceValue < axis.def
    THEN IF axis.max - axis.def = 0
         THEN Raise("ZeroDivisionError")
         ELSE Return(FracNeg(Frac(axis.def - instanceValue, axis.max - axis.def)))
    ELSE IF instanceValue > axis.def
    THEN IF axis.max - axis.def = 0
         THEN Raise("ZeroDivisionError")
         ELSE Return(Frac(instanceValue - axis.def, axis.max - axis.def))
    ELSE Return(Zero)

\* a plausible slip: a zero span is guarded by returning 0.0
defaultNormalizedValue_zeroSpan(axis, instanceValue) ==
    IF instanceValue < axis.def
    THEN IF axis.def - axis.min = 0
         THEN Return(Zero)
         ELSE Return(FracNeg(Frac(axis.def - instanceValue, axis.def - axis.min)))
    ELSE IF instanceValue > axis.def
    THEN IF axis.max - axis.def = 0
         THEN Return(Zero)
         ELSE Return(Frac(instanceValue - axis.def, axis.max - axis.def))
    ELSE Return(Zero)

defaultNormalizedValue(axis, instanceValue) ==
    IF instanceValue < axis.def
    THEN IF axis.def - axis.min = 0
         THEN Raise("ZeroDivisionError")
         ELSE Return(FracNeg(Frac(axis.def - instanceValue, axis.def - axis.min)))
    ELSE IF instanceValue > axis.def
    THEN IF axis.max - axis.def = 0
         THEN Raise("ZeroDivisionError")
         ELSE Return(Frac(instanceValue - axis.def, axis.max - axis.def))
    ELSE Return(Zero)

(* ------------------------- Python dictionaries ------------------------ *)

\* the keys of a dict filled in the order of seq: each key at the place of
\* its first insertion
RECURSIVE DictKeys(_)
DictKeys(seq) ==
    IF seq = <<>> THEN <<>>
    ELSE LET rest == DictKeys(SubSeq(seq, 1, Len(seq) - 1))
             k == seq[Len(seq)]
         IN  IF \E i \in 1..Len(rest) : rest[i] = k THEN rest ELSE Append(rest, k)

\* the index of the last element of seq with key k: the insertion that stays
LastIndex(seq, k) ==
    CHOOSE i \in 1..Len(seq) :
        /\ seq[i] = k
        /\ \A j \in (i + 1)..Len(seq) : seq[j] # k

Range(seq) == {seq[i] : i \in 1..Len(seq)}

(* ----------------------- get_source_axes_values ----------------------- *)

NoValue == [fin |-> FALSE, v |-> 0]
Finite(x) == [fin |-> TRUE, v |-> x]

\* master.axes[axis_index] with the IndexError fallback 0.0; axis_index is
\* 0-based
MasterAxisValue(master, axis_index) ==
    IF axis_index + 1 <= Len(master.axes) THEN master.axes[axis_index + 1] ELSE 0

\* the loop over gsfont.masters, from master i on
RECURSIVE ScanMasters(_, _, _, _, _)
ScanMasters(masters, i, axis_index, max_value, min_value) ==
    IF i > Len(masters) THEN [max |-> max_value.v, min |-> min_value.v]
    ELSE LET value == MasterAxisValue(masters[i], axis_index)
             mx == IF ~max_value.fin \/ value > max_value.v
                   THEN Finite(value) ELSE max_value
             mn == IF ~min_value.fin \/ value < min_value.v
                   THEN Finite(value) ELSE min_value
         IN  ScanMasters(masters, i + 1, axis_index, mx, mn)

\* a plausible slip: the default is read from the first master, not from
\* the master flagged as the origin
SourceAxisValues_firstMaster(gs, default_master, axis_index) ==
    LET ext == ScanMasters(gs.masters, 1, axis_index, NoValue, NoValue)
    IN  [def |-> MasterAxisValue(gs.masters[1], axis_index),
         min |-> ext.min, max |-> ext.max]

\* the body of the loop over the axes: one axis's triple
SourceAxisValues(gs, default_master, axis_index) ==
    LET ext == ScanMasters(gs.masters, 1, axis_index, NoValue, NoValue)
    IN  [def |-> MasterAxisValue(default_master, axis_index),
         min |-> ext.min, max |-> ext.max]

\* [exc, val]: val maps each project axis tag to its [def, min, max]
get_source_axes_values(gs) ==
    LET axes_tags == [i \in 1..Len(gs.axes) |-> gs.axes[i].axisTag]
        found == {i \in 1..Len(gs.masters) : gs.masters[i].id = gs.origin}
    IN  IF found = {} THEN Raise("IndexError")
        ELSE LET default_master ==
                     gs.masters[CHOOSE i \in found : \A j \in found : i <= j]
             IN  Return([t \in Range(axes_tags) |->
                     SourceAxisValues(gs, default_master,
                                      LastIndex(axes_tags, t) - 1)])

(* --------------------------- get_axes_values -------------------------- *)

get_axes_values(tt) ==
    LET tags == [i \in 1..Len(tt.fvarAxes) |-> tt.fvarAxes[i].axisTag]
    IN  [keys |-> DictKeys(tags),
         map |-> [t \in Range(tags) |->
                    LET a == tt.fvarAxes[LastIndex(tags, t)]
                    IN  [max |-> a.maxValue, min |-> a.minValue,
                         def |-> a.defaultValue]]]

(* ------------------------- instance locations ------------------------- *)

InstanceNames(gs) == [i \in 1..Len(gs.instances) |-> gs.instances[i].name]

\* the tag of every axis name that gsfont.axes defines
AxisTagOfName(gs) ==
    LET names == [i \in 1..Len(gs.axes) |-> gs.axes[i].name]
    IN  [n \in Range(names) |-> gs.axes[LastIndex(names, n)].axisTag]

\* one instance's "Axis Location" entries as {tag: float(Location)}
DeclaredLocation(gs, instance) ==
    LET tagOf == AxisTagOfName(gs)
        entries == instance.axisLocation
        tags == [i \in 1..Len(entries) |-> tagOf[entries[i].Axis]]
    IN  [t \in Range(tags) |-> entries[LastIndex(tags, t)].Location]

\* the desired locations: [exc, val] with val = [keys, map], a dict by
\* instance name; an entry naming no axis of gsfont.axes is a KeyError
get_instance_locations(gs) ==
    LET names == InstanceNames(gs)
        known == DOMAIN AxisTagOfName(gs)
    IN  IF \E i \in 1..Len(gs.instances) :
               \E e \in Range(gs.instances[i].axisLocation) : e.Axis \notin known
        THEN Raise("KeyError")
        ELSE Return([keys |-> DictKeys(names),
                     map |-> [n \in Range(names) |->
                         DeclaredLocation(gs, gs.instances[LastIndex(names, n)])]])

\* one instance's interpolation coordinates by tag: 0.0 for every axis, then
\* instance.axes[:len(axes_tags)] by position
GvarLocation(gs, instance) ==
    LET axes_tags == [i \in 1..Len(gs.axes) |-> gs.axes[i].axisTag]
        given(t) == {i \in 1..Len(axes_tags) :
                        axes_tags[i] = t /\ i <= Len(instance.axes)}
    IN  [t \in Range(axes_tags) |->
            IF given(t) = {} THEN 0
            ELSE instance.axes[CHOOSE i \in given(t) : \A j \in given(t) : j <= i]]

\* the current locations: [keys, map], a dict by instance name
get_gvar_instance_locations(gs) ==
    LET names == InstanceNames(gs)
    IN  [keys |-> DictKeys(names),
         map |-> [n \in Range(names) |->
                    GvarLocation(gs, gs.instances[LastIndex(names, n)])]]

(* ----------------------------- create_avar ---------------------------- *)

Anchors == (MinusOne :> MinusOne) @@ (Zero :> Zero) @@ (One :> One)

\* the reading of the curve as current -> desired: key and value exchanged
CurvePoint_currentToDesired(axis_values, source_axis_values, current, desired) ==
    LET value == defaultNormalizedValue(source_axis_values, current)
        key == defaultNormalizedValue(axis_values, desired)
    IN  IF value.exc # "none" THEN Raise(value.exc)
        ELSE IF key.exc # "none" THEN Raise(key.exc)
        ELSE Return(<<value.val, key.val>>)

\* a plausible slip: the value is the current coordinate itself, not
\* normalized
CurvePoint_rawCurrent(axis_values, source_axis_values, current, desired) ==
    LET key == defaultNormalizedValue(axis_values, desired)
    IN  IF key.exc # "none" THEN Raise(key.exc)
        ELSE Return(<<key.val, Frac(current, 1)>>)

\* the item stored for one instance: <<key, value>>; the right-hand side of
\* the assignment is evaluated before the subscript
CurvePoint(axis_values, source_axis_values, current, desired) ==
    LET value == defaultNormalizedValue(source_axis_values, current)
        key == defaultNormalizedValue(axis_values, desired)
    IN  IF value.exc # "none" THEN Raise(value.exc)
        ELSE IF key.exc # "none" THEN Raise(key.exc)
        ELSE Return(<<key.val, value.val>>)

\* a plausible slip: a key already in the curve is kept (first write wins)
StorePoint_keepFirst(curve, point) ==
    IF point[1] \in DOMAIN curve THEN curve ELSE (point[1] :> point[2]) @@ curve

\* curve[key] = value
StorePoint(curve, point) == (point[1] :> point[2]) @@ curve

\* the inner loop, from instance j on: [exc, val] with val the curve
RECURSIVE InstanceLoop(_, _, _, _)
InstanceLoop(ctx, axis_tag, curve, j) ==
    IF j > Len(ctx.current.keys) THEN Return(curve)
    ELSE LET instance_name == ctx.current.keys[j]
             current_location == ctx.current.map[instance_name]
             desired_location == ctx.desired.map[instance_name]
         IN  IF axis_tag \notin DOMAIN current_location THEN Raise("KeyError")
             ELSE IF axis_tag \notin DOMAIN desired_location THEN Raise("KeyError")
             ELSE LET point == CurvePoint(ctx.axes_values.map[axis_tag],
                                          ctx.source_axes_values[axis_tag],
                                          current_location[axis_tag],
                                          desired_location[axis_tag])
                  IN  IF point.exc # "none" THEN Raise(point.exc)
                      ELSE InstanceLoop(ctx, axis_tag,
                                        StorePoint(curve, point.val), j + 1)

\* the outer loop, from axis k on: [exc, val] with val = avar.segments
RECURSIVE AxisLoop(_, _, _)
AxisLoop(ctx, segments, k) ==
    IF k > Len(ctx.axes_values.keys) THEN Return(segments)
    ELSE LET axis_tag == ctx.axes_values.keys[k]
             curve == InstanceLoop(ctx, axis_tag, Anchors, 1)
         IN  IF curve.exc # "none" THEN Raise(curve.exc)
             ELSE AxisLoop(ctx, (axis_tag :> curve.val) @@ segments, k + 1)

NoSegments == [t \in {} |-> Anchors]

\* the reading of the loop as skipping the fvar axes that the project lacks
create_avar_skipAbsent(tt, gs) ==
    LET source_axes_values == get_source_axes_values(gs)
        desired_locations == get_instance_locations(gs)
        axes_values == get_axes_values(tt)
        InProject(t) == t \in DOMAIN source_axes_values.val
    IN  IF source_axes_values.exc # "none" THEN Raise(source_axes_values.exc)
        ELSE IF desired_locations.exc # "none" THEN Raise(desired_locations.exc)
        ELSE IF gs.instances = <<>> THEN Raise("ValueError")
        ELSE AxisLoop([axes_values |->
                          [axes_values EXCEPT
                              !.keys = SelectSeq(axes_values.keys, InProject)],
                       source_axes_values |-> source_axes_values.val,
                       current |-> get_gvar_instance_locations(gs),
                       desired |-> desired_locations.val],
                      NoSegments, 1)

\* [exc, val]: val is the segments of the table assigned to ttfont["avar"]
create_avar(tt, gs) ==
    LET source_axes_values == get_source_axes_values(gs)
        desired_locations == get_instance_locations(gs)
    IN  IF source_axes_values.exc # "none" THEN Raise(source_axes_values.exc)
        ELSE IF desired_locations.exc # "none" THEN Raise(desired_locations.exc)
        ELSE IF gs.instances = <<>> THEN Raise("ValueError")
        ELSE AxisLoop([axes_values |-> get_axes_values(tt),
                       source_axes_values |-> source_axes_values.val,
                       current |-> get_gvar_instance_locations(gs),
                       desired |-> desired_locations.val],
                      NoSegments, 1)

(* ------------------------ update_stat, update_fvar -------------------- *)

get_name(tt, id) == tt.names[id]

\* the AxisValue records one fvar instance appends, one per STAT design axis
\* that the instance declares
StatRecords(tt, instance, desired_location) ==
    LET declared == {i \in 1..Len(tt.statAxes) :
                        tt.statAxes[i] \in DOMAIN desired_location}
        RECURSIVE From(_)
        From(i) ==
            IF i > Len(tt.statAxes) THEN <<>>
            ELSE IF i \notin declared THEN From(i + 1)
            ELSE <<[Format |-> 1, AxisIndex |-> i - 1, Flags |-> 0,
                    ValueNameID |-> instance.subfamilyNameID,
                    Value |-> desired_location[tt.statAxes[i]]]>> \o From(i + 1)
    IN  From(1)

\* the loop over fvar.instances, from instance k on, the array being values:
\* [exc, val] with val the AxisValue array as the loop leaves it
RECURSIVE StatLoop(_, _, _, _)
StatLoop(tt, desired_locations, values, k) ==
    IF k > Len(tt.fvarInstances) THEN Return(values)
    ELSE LET instance == tt.fvarInstances[k]
             instance_name == get_name(tt, instance.subfamilyNameID)
         IN  IF tt.statAxes = <<>>
             THEN StatLoop(tt, desired_locations, values, k + 1)
             ELSE IF instance_name \notin DOMAIN desired_locations.map
             THEN [exc |-> "KeyError", val |-> values]
             ELSE StatLoop(tt, desired_locations,
                           values \o StatRecords(tt, instance,
                                        desired_locations.map[instance_name]),
                           k + 1)

\* a plausible slip: the array is extended, not reset
update_stat_noReset(tt, gs) ==
    LET desired_locations == get_instance_locations(gs)
    IN  IF desired_locations.exc # "none"
        THEN [exc |-> desired_locations.exc, tt |-> tt]
        ELSE LET done == StatLoop(tt, desired_locations.val, tt.statValues, 1)
             IN  [exc |-> done.exc, tt |-> [tt EXCEPT !.statValues = done.val]]

\* [exc, tt]: tt is the font as the call leaves it, also when it raises
update_stat(tt, gs) ==
    LET desired_locations == get_instance_locations(gs)
    IN  IF desired_locations.exc # "none"
        THEN [exc |-> desired_locations.exc, tt |-> tt]
        ELSE LET done == StatLoop(tt, desired_locations.val, <<>>, 1)
             IN  [exc |-> done.exc, tt |-> [tt EXCEPT !.statValues = done.val]]

\* the tags of instance.coordinates, in the order of the fvar axes
CoordinateTags(tt) == DictKeys([i \in 1..Len(tt.fvarAxes) |-> tt.fvarAxes[i].axisTag])

\* the loop over fvar.instances, from instance k on: [exc, val] with val the
\* instances as the loop leaves them
RECURSIVE FvarLoop(_, _, _, _)
FvarLoop(tt, desired_locations, instances, k) ==
    IF k > Len(instances) THEN Return(instances)
    ELSE LET instance == instances[k]
             instance_name == get_name(tt, instance.subfamilyNameID)
             tags == CoordinateTags(tt)
             known == instance_name \in DOMAIN desired_locations.map
             bad == {i \in 1..Len(tags) :
                       \/ ~known
                       \/ tags[i] \notin DOMAIN desired_locations.map[instance_name]}
             stop == IF bad = {} THEN Len(tags) + 1
                     ELSE CHOOSE i \in bad : \A j \in bad : i <= j
             coordinates ==
                 [t \in DOMAIN instance.coordinates |->
                     IF \E i \in 1..(stop - 1) : tags[i] = t
                     THEN desired_locations.map[instance_name][t]
                     ELSE instance.coordinates[t]]
             written == [instances EXCEPT ![k].coordinates = coordinates]
         IN  IF bad # {} THEN [exc |-> "KeyError", val |-> written]
             ELSE FvarLoop(tt, desired_locations, written, k + 1)

\* [exc, tt]: tt is the font as the call leaves it, also when it raises
update_fvar(tt, gs) ==
    LET desired_locations == get_instance_locations(gs)
    IN  IF desired_locations.exc # "none"
        THEN [exc |-> desired_locations.exc, tt |-> tt]
        ELSE LET done == FvarLoop(tt, desired_locations.val, tt.fvarInstances, 1)
             IN  [exc |-> done.exc, tt |-> [tt EXCEPT !.fvarInstances = done.val]]

(* ------------------------------- inputs ------------------------------- *)

\* the coordinates an instance is interpolated at or declares
Coords == {0, 1, 2}

Weight == [name |-> "Weight", axisTag |-> "wght"]
Width == [name |-> "Width", axisTag |-> "wdth"]

Triple(lo, d, hi) == [min |-> lo, def |-> d, max |-> hi]

FvarAxis(tag, range) ==
    [axisTag |-> tag, minValue |-> range.min, defaultValue |-> range.def,
     maxValue |-> range.max]

Master(id, axes) == [id |-> id, axes |-> axes]

\* the fvar ranges of wght the pipeline is run on
BinaryRanges == {Triple(0, 1, 2), Triple(0, 0, 2), Triple(0, 0, 1), Triple(1, 1, 2)}

\* the fvar range of wdth; every instance declares the width 1
WidthRange == Triple(0, 1, 2)

\* masters of the pipeline's runs: wght from 0 over 1 (the origin) to 2
OriginInside ==
    [masters |-> <<Master("m1", <<0>>), Master("m2", <<1>>), Master("m3", <<2>>)>>,
     origin |-> "m2"]

\* further master sets: the origin at the minimum; every master at 1; a
\* master without coordinates; no origin parameter
MasterSets ==
    { OriginInside,
      [masters |-> <<Master("m1", <<0>>), Master("m2", <<2>>)>>, origin |-> "m1"],
      [masters |-> <<Master("m1", <<1>>), Master("m2", <<1>>)>>, origin |-> "m1"],
      [masters |-> <<Master("m1", <<2>>), Master("m2", <<>>)>>, origin |-> "m1"],
      [masters |-> <<Master("m1", <<0>>), Master("m2", <<2>>)>>, origin |-> "none"] }

OwnName == <<"Regular", "Bold", "Light", "Black">>
NameTable ==
    (256 :> "Regular") @@ (257 :> "Bold") @@ (258 :> "Light") @@ (259 :> "Black")
        @@ (260 :> "Ghost")
NameID(name) == CHOOSE id \in DOMAIN NameTable : NameTable[id] = name

\* the axes of the two fonts, and whether the binary names an instance that
\* the project lacks ("none", "first", "last")
Plain == [gsAxes |-> <<Weight>>, ttTags |-> <<"wght">>, ghost |-> "none"]

Layouts ==
    [gsAxes : {<<Weight>>}, ttTags : {<<"wght">>}, ghost : {"none", "first", "last"}]
    \cup [gsAxes : {<<Weight>>, <<Weight, Width>>},
          ttTags : {<<"wght">>, <<"wght", "wdth">>, <<"wdth", "wght">>},
          ghost : {"none"}]
    \cup [gsAxes : {<<Weight, Width>>}, ttTags : {<<"wght", "wdth">>},
          ghost : {"last"}]

\* the runs: every range against every master set on the plain layout, and
\* every layout on one range and master set
Configs ==
    [layout : {Plain}, range : BinaryRanges, ms : MasterSets]
    \cup [layout : Layouts, range : {Triple(0, 1, 2)}, ms : {OriginInside}]

\* an instance with interpolation coordinate c and declared weight d; every
\* instance carries the "Axis Location" parameter, as main's description
\* requires
Instance(gsAxes, name, c, d) ==
    [name |-> name, axes |-> <<c>>,
     axisLocation |->
        <<[Axis |-> "Weight", Location |-> d]>>
        \o (IF Len(gsAxes) > 1
            THEN <<[Axis |-> "Width", Location |-> 1]>> ELSE <<>>)]

\* the instance lists: every instance under its own name, or the last one
\* under the name of the first
InstanceLists(gsAxes) ==
    UNION { { [i \in 1..n |->
                 Instance(gsAxes,
                          IF i = n /\ sameName THEN OwnName[1] ELSE OwnName[i],
                          cd[i][1], cd[i][2])] :
              cd \in [1..n -> Coords \X Coords],
              sameName \in IF n > 1 THEN BOOLEAN ELSE {FALSE} }
            : n \in 0..MaxInstances }

\* the named instances the compiler put into fvar: one per project instance
\* name, at its interpolation coordinates, and the instance the project lacks
FvarInstances(gs, ttTags, ghost) ==
    LET current == get_gvar_instance_locations(gs)
        own == [i \in 1..Len(current.keys) |->
                  [subfamilyNameID |-> NameID(current.keys[i]),
                   coordinates |-> [t \in Range(ttTags) |->
                       IF t \in DOMAIN current.map[current.keys[i]]
                       THEN current.map[current.keys[i]][t] ELSE 0]]]
        other == <<[subfamilyNameID |-> NameID("Ghost"),
                    coordinates |-> [t \in Range(ttTags) |-> 0]]>>
    IN  IF ghost = "first" THEN other \o own
        ELSE IF ghost = "last" THEN own \o other
        ELSE own

\* the AxisValue array the compiler wrote: one record per fvar instance
StatValues(instances) ==
    [i \in 1..Len(instances) |->
        [Format |-> 1, AxisIndex |-> 0, Flags |-> 0,
         ValueNameID |-> instances[i].subfamilyNameID, Value |-> 0]]

NoCall == [fn |-> "none"]

(* ------------------------------ pipeline ------------------------------ *)

Init ==
    /\ \E cfg \in Configs :
         \E instances \in InstanceLists(cfg.layout.gsAxes) :
            LET layout == cfg.layout
                range == cfg.range
                ms == cfg.ms
                gs == [axes |-> layout.gsAxes, masters |-> ms.masters,
                       origin |-> ms.origin, instances |-> instances]
                fvarInstances == FvarInstances(gs, layout.ttTags, layout.ghost)
                tt == [fvarAxes |->
                          [i \in 1..Len(layout.ttTags) |->
                              FvarAxis(layout.ttTags[i],
                                       IF layout.ttTags[i] = "wght"
                                       THEN range ELSE WidthRange)],
                       fvarInstances |-> fvarInstances,
                       names |-> NameTable,
                       statAxes |-> layout.ttTags,
                       statValues |-> StatValues(fvarInstances),
                       avar |-> [present |-> FALSE, segments |-> NoSegments]]
            IN  /\ gsfont = gs
                /\ ttfont = tt
                /\ loaded = tt
    /\ pc = "create_avar"
    /\ err = [in |-> "none", exc |-> "none"]
    /\ saved = FALSE
    /\ call = NoCall

\* main, line 181
CreateAvar ==
    /\ pc = "create_avar"
    /\ LET r == create_avar(ttfont, gsfont)
       IN  IF r.exc = "none"
           THEN /\ ttfont' = [ttfont EXCEPT
                                !.avar = [present |-> TRUE, segments |-> r.val]]
                /\ pc' = "update_stat"
                /\ err' = err
           ELSE /\ ttfont' = ttfont
                /\ pc' = "failed"
                /\ err' = [in |-> "create_avar", exc |-> r.exc]
    /\ UNCHANGED <<gsfont, loaded, saved, call>>

\* main, line 182
UpdateStat ==
    /\ pc = "update_stat"
    /\ LET r == update_stat(ttfont, gsfont)
       IN  /\ ttfont' = r.tt
           /\ pc' = IF r.exc = "none" THEN "update_fvar" ELSE "failed"
           /\ err' = IF r.exc = "none" THEN err
                     ELSE [in |-> "update_stat", exc |-> r.exc]
    /\ UNCHANGED <<gsfont, loaded, saved, call>>

\* main, line 183
UpdateFvar ==
    /\ pc = "update_fvar"
    /\ LET r == update_fvar(ttfont, gsfont)
       IN  /\ ttfont' = r.tt
           /\ pc' = IF r.exc = "none" THEN "save" ELSE "failed"
           /\ err' = IF r.exc = "none" THEN err
                     ELSE [in |-> "update_fvar", exc |-> r.exc]
    /\ UNCHANGED <<gsfont, loaded, saved, call>>

\* main, lines 185-187
Save ==
    /\ pc = "save"
    /\ saved' = TRUE
    /\ pc' = "done"
    /\ UNCHANGED <<gsfont, ttfont, loaded, err, call>>

Next == CreateAvar \/ UpdateStat \/ UpdateFvar \/ Save

Spec == Init /\ [][Next]_vars

(* ------------------- defaultNormalizedValue, alone -------------------- *)

NoFont == [loaded |-> FALSE]

NormCoords == 0..MaxNormCoord

NormInit ==
    /\ \E lo \in NormCoords, d \in NormCoords, hi \in NormCoords :
         \E v1 \in NormCoords, v2 \in NormCoords :
            /\ lo <= d
            /\ d <= hi
            /\ call = [fn |-> "defaultNormalizedValue",
                       axis |-> Triple(lo, d, hi), v1 |-> v1, v2 |-> v2,
                       r1 |-> Raise("pending"), r2 |-> Raise("pending")]
    /\ pc = "call"
    /\ gsfont = NoFont
    /\ ttfont = NoFont
    /\ loaded = NoFont
    /\ err = [in |-> "none", exc |-> "none"]
    /\ saved = FALSE

\* the function applied to the two values on the same axis
NormCall ==
    /\ pc = "call"
    /\ call.fn = "defaultNormalizedValue"
    /\ call' = [call EXCEPT !.r1 = defaultNormalizedValue(call.axis, call.v1),
                            !.r2 = defaultNormalizedValue(call.axis, call.v2)]
    /\ pc' = "returned"
    /\ UNCHANGED <<gsfont, ttfont, loaded, err, saved>>

NormNext == NormCall

SpecNorm == NormInit /\ [][NormNext]_vars

(* ------------------- get_source_axes_values, alone -------------------- *)

MasterCoords == {-1, 0, 1}
MasterId == <<"m1", "m2", "m3", "m4">>

\* a master's axes: no, one or two coordinates
MasterAxes ==
    {<<>>} \cup {<<a>> : a \in MasterCoords}
           \cup {<<a, b>> : a \in MasterCoords, b \in MasterCoords}

MasterLists ==
    UNION { { [i \in 1..n |-> Master(MasterId[i], ax[i])] : ax \in [1..n -> MasterAxes] }
            : n \in 0..MaxMasters }

SourceInit ==
    /\ \E masters \in MasterLists :
         \E origin \in {"none"} \cup {MasterId[i] : i \in 1..MaxMasters} :
            gsfont = [axes |-> <<Weight, Width>>, masters |-> masters,
                      origin |-> origin, instances |-> <<>>]
    /\ call = [fn |-> "get_source_axes_values", r |-> Raise("pending")]
    /\ pc = "call"
    /\ ttfont = NoFont
    /\ loaded = NoFont
    /\ err = [in |-> "none", exc |-> "none"]
    /\ saved = FALSE

SourceCall ==
    /\ pc = "call"
    /\ call.fn = "get_source_axes_values"
    /\ call' = [call EXCEPT !.r = get_source_axes_values(gsfont)]
    /\ pc' = "returned"
    /\ UNCHANGED <<gsfont, ttfont, loaded, err, saved>>

SourceNext == SourceCall

SpecSource == SourceInit /\ [][SourceNext]_vars

(* ------------------------------- claims ------------------------------- *)

\* C3: on a range with min < default < max, defaultNormalizedValue returns
\* 0 at the default, -1 at the minimum, 1 at the maximum, raises nothing, and
\* is monotonically non-decreasing: v1 <= v2 gives result(v1) <= result(v2).
NormalizerAnchorsAndMonotone ==
    (/\ pc = "returned"
     /\ call.fn = "defaultNormalizedValue"
     /\ call.axis.min < call.axis.def
     /\ call.axis.def < call.axis.max)
    => /\ call.r1.exc = "none"
       /\ call.r2.exc = "none"
       /\ (call.v1 = call.axis.def => call.r1.val = Zero)
       /\ (call.v1 = call.axis.min => call.r1.val = MinusOne)
       /\ (call.v1 = call.axis.max => call.r1.val = One)
       /\ (call.v1 <= call.v2 => FracLeq(call.r1.val, call.r2.val))

\* a call on a well-formed range with one value below and one above the default
NormalizerWitness ==
    /\ pc = "returned"
    /\ call.fn = "defaultNormalizedValue"
    /\ call.axis.min < call.axis.def
    /\ call.axis.def < call.axis.max
    /\ call.v1 < call.axis.def
    /\ call.axis.min < call.v1
    /\ call.v2 > call.axis.def
    /\ FracLess(call.r1.val, call.r2.val)

\* a master's coordinate at a 1-based axis position, 0 when it has none
CoordAt(master, i) == IF i <= Len(master.axes) THEN master.axes[i] ELSE 0

HasOrigin == \E i \in 1..Len(gsfont.masters) : gsfont.masters[i].id = gsfont.origin

\* C10: with the origin master in the list, get_source_axes_values returns
\* for every axis the origin master's coordinate as default and the least
\* and the greatest coordinate over all masters as min and max, a missing
\* coordinate counting as 0, so that min <= default <= max; with no master
\* flagged as the origin the call fails.
SourceAxesValues ==
    (pc = "returned" /\ call.fn = "get_source_axes_values")
    => IF HasOrigin
       THEN /\ call.r.exc = "none"
            /\ DOMAIN call.r.val = {gsfont.axes[i].axisTag : i \in 1..Len(gsfont.axes)}
            /\ \A i \in 1..Len(gsfont.axes) :
                 LET got == call.r.val[gsfont.axes[i].axisTag]
                     all == {CoordAt(gsfont.masters[m], i) : m \in 1..Len(gsfont.masters)}
                 IN  /\ \E m \in 1..Len(gsfont.masters) :
                           /\ gsfont.masters[m].id = gsfont.origin
                           /\ got.def = CoordAt(gsfont.masters[m], i)
                     /\ got.min \in all
                     /\ got.max \in all
                     /\ \A x \in all : got.min <= x /\ x <= got.max
                     /\ got.min <= got.def
                     /\ got.def <= got.max
       ELSE call.r.exc = "IndexError"

\* a return where the origin is not the first master, one master lacks the
\* second coordinate, and 0 is the maximum only through that fallback
SourceAxesWitness ==
    /\ pc = "returned"
    /\ call.fn = "get_source_axes_values"
    /\ HasOrigin
    /\ gsfont.masters[1].id # gsfont.origin
    /\ \E m \in 1..Len(gsfont.masters) : Len(gsfont.masters[m].axes) < 2
    /\ call.r.exc = "none"
    /\ call.r.val["wdth"].max = 0
    /\ call.r.val["wdth"].min < 0
    /\ call.r.val["wght"].min < call.r.val["wght"].def

\* a call without an origin master
SourceAxesNoOrigin ==
    /\ pc = "returned"
    /\ call.fn = "get_source_axes_values"
    /\ ~HasOrigin
    /\ gsfont.masters # <<>>

(* ---- the table create_avar installed, against the two fonts read ---- *)

\* create_avar has returned and the table it built is in the font
Installed == ttfont.avar.present
\* main is between create_avar and update_stat
Built == pc = "update_stat" /\ Installed
Segments == ttfont.avar.segments

BinaryTags == {ttfont.fvarAxes[i].axisTag : i \in 1..Len(ttfont.fvarAxes)}
ProjectTags == {gsfont.axes[i].axisTag : i \in 1..Len(gsfont.axes)}

\* the project's instances by name, in enumeration order
Enumerated == get_gvar_instance_locations(gsfont).keys
Current(n, t) == get_gvar_instance_locations(gsfont).map[n][t]
ProjectRange(t) == get_source_axes_values(gsfont).val[t]

\* for every fvar axis t and every enumerated instance i, its two normalized
\* positions: desired = Normalizer(desired coordinate, binary-side range),
\* current = Normalizer(current coordinate, project-side range)
Positions ==
    LET cur == get_gvar_instance_locations(gsfont)
        des == get_instance_locations(gsfont).val
        bin == get_axes_values(ttfont).map
        prj == get_source_axes_values(gsfont).val
    IN  [t \in BinaryTags |->
            [i \in 1..Len(cur.keys) |->
                [desired |-> defaultNormalizedValue(
                                 bin[t], des.map[cur.keys[i]][t]).val,
                 current |-> defaultNormalizedValue(
                                 prj[t], cur.map[cur.keys[i]][t]).val]] @@ <<>>]
        @@ <<>>

AnchorKeys == {MinusOne, Zero, One}

InUnit(x) == FracLeq(MinusOne, x) /\ FracLeq(x, One)

\* C1 as stated: the curve maps key = normalized current position to value =
\* normalized desired position, except where a later instance has the same
\* key.
CurveMapsCurrentToDesired ==
    Built =>
        LET P == Positions
        IN  \A t \in BinaryTags : \A i \in DOMAIN P[t] :
                (\A j \in DOMAIN P[t] : j > i => P[t][j].current # P[t][i].current)
                => /\ P[t][i].current \in DOMAIN Segments[t]
                   /\ Segments[t][P[t][i].current] = P[t][i].desired

\* C1, amended: for every axis of fvar and every project instance (taken by
\* name), the curve maps key = Normalizer(desired coordinate, binary-side
\* range) to value = Normalizer(current coordinate, project-side range),
\* except where a later instance has the same key.
CurveMapsDesiredToCurrent ==
    Built =>
        LET P == Positions
        IN  \A t \in BinaryTags : \A i \in DOMAIN P[t] :
                (\A j \in DOMAIN P[t] : j > i => P[t][j].desired # P[t][i].desired)
                => /\ P[t][i].desired \in DOMAIN Segments[t]
                   /\ Segments[t][P[t][i].desired] = P[t][i].current

\* a curve with an instance's point off the anchors and off the diagonal
CurvePointWitness ==
    /\ Built
    /\ LET P == Positions
       IN  \E t \in BinaryTags : \E i \in DOMAIN P[t] :
              /\ P[t][i].desired \notin AnchorKeys
              /\ P[t][i].desired # P[t][i].current
              /\ Segments[t][P[t][i].desired] = P[t][i].current

\* C2: every curve holds the keys -1, 0 and 1, each mapped to itself,
\* whatever the instances contribute.
AnchorsKept ==
    Built =>
        \A t \in BinaryTags :
            /\ AnchorKeys \subseteq DOMAIN Segments[t]
            /\ \A k \in AnchorKeys : Segments[t][k] = k

\* C8: every key and every value of every curve lies in [-1, 1].
CurveInUnitInterval ==
    Built =>
        \A t \in DOMAIN Segments : \A k \in DOMAIN Segments[t] :
            InUnit(k) /\ InUnit(Segments[t][k])

\* every instance's normalized current position equals its normalized
\* desired position, on every axis
AlreadyInPlace(P) ==
    \A t \in BinaryTags : \A i \in DOMAIN P[t] : P[t][i].current = P[t][i].desired

CurrentCollision(p, a, b) ==
    /\ a < b
    /\ p[a].current = p[b].current
    /\ p[a].desired # p[b].desired
    /\ \A j \in DOMAIN p : j > b => p[j].current # p[b].current

\* the same on the desired side
DesiredCollision(p, a, b) ==
    /\ a < b
    /\ p[a].desired = p[b].desired
    /\ p[a].current # p[b].current
    /\ \A j \in DOMAIN p : j > b => p[j].desired # p[b].desired

Degenerate(t) ==
    /\ get_source_axes_values(gsfont).exc = "none"
    /\ t \in ProjectTags
    /\ ProjectRange(t).min = ProjectRange(t).max

CreateAvarFailed == pc = "failed" /\ err.in = "create_avar" /\ ~Installed

DegenerateCompletes ==
    /\ Built
    /\ \E t \in BinaryTags :
         /\ Degenerate(t)
         /\ \E k \in DOMAIN Segments[t] : k \notin AnchorKeys

\* C7 as stated: with an fvar axis that the project lacks, create_avar
\* completes, emits no curve for that axis and emits the other curves.
AbsentAxisSkipped ==
    (pc # "create_avar" /\ BinaryTags \ ProjectTags # {})
    => /\ Installed
       /\ DOMAIN Segments = BinaryTags \cap ProjectTags

\* C7, amended: with an fvar axis that the project lacks, create_avar fails
\* with an error (the lookup failure, when the loop reaches that axis) and
\* installs no avar table: the font is as it was loaded.
AbsentAxisFails ==
    (pc # "create_avar" /\ BinaryTags \ ProjectTags # {})
    => /\ CreateAvarFailed
       /\ err.exc # "none"
       /\ ttfont = loaded

\* the lookup failure, on a font that shares the axis wght with the project
AbsentAxisWitness ==
    /\ pc = "failed"
    /\ err = [in |-> "create_avar", exc |-> "KeyError"]
    /\ gsfont.instances # <<>>
    /\ BinaryTags \ ProjectTags # {}
    /\ BinaryTags \cap ProjectTags # {}

\* fvar holds a named instance whose name no project instance has
Unmatched ==
    {i \in 1..Len(loaded.fvarInstances) :
        get_name(loaded, loaded.fvarInstances[i].subfamilyNameID)
            \notin Range(InstanceNames(gsfont))}

FirstUnmatched == CHOOSE i \in Unmatched : \A j \in Unmatched : i <= j

\* the AxisValue records of the fvar instances k..(g - 1): for each, one
\* record per STAT design axis the instance declares, in axis order
RECURSIVE WrittenBefore(_, _, _)
WrittenBefore(k, i, g) ==
    IF k >= g THEN <<>>
    ELSE IF i > Len(loaded.statAxes) THEN WrittenBefore(k + 1, 1, g)
    ELSE LET id == loaded.fvarInstances[k].subfamilyNameID
             declared == get_instance_locations(gsfont).val.map[get_name(loaded, id)]
         IN  IF loaded.statAxes[i] \notin DOMAIN declared
             THEN WrittenBefore(k, i + 1, g)
             ELSE <<[Format |-> 1, AxisIndex |-> i - 1, Flags |-> 0,
                     ValueNameID |-> id,
                     Value |-> declared[loaded.statAxes[i]]]>>
                  \o WrittenBefore(k, i + 1, g)

\* C4 as stated: with an unmatched fvar instance the run fails, and at the
\* failure no table has been modified: avar is not installed, the STAT
\* array and the fvar coordinates are the original ones.
FailsWithoutMutation ==
    Unmatched # {} =>
        /\ pc \notin {"save", "done"}
        /\ ~saved
        /\ pc = "failed" =>
             /\ ~Installed
             /\ ttfont.statValues = loaded.statValues
             /\ ttfont.fvarInstances = loaded.fvarInstances

\* C4, amended: with an unmatched fvar instance (and a STAT table that lists
\* a design axis) the run fails before update_fvar and before the font is
\* saved, and every fvar coordinate holds its original value; if create_avar
\* failed the font is as loaded; otherwise the failure is in update_stat,
\* with the avar table installed and the STAT array reset to the records of
\* the instances before the unmatched one.
FailsBeforeFvarAndSave ==
    (Unmatched # {} /\ loaded.statAxes # <<>>) =>
        /\ pc \notin {"update_fvar", "save", "done"}
        /\ ~saved
        /\ ttfont.fvarInstances = loaded.fvarInstances
        /\ pc = "failed" =>
             IF err.in = "create_avar"
             THEN ttfont = loaded
             ELSE /\ err = [in |-> "update_stat", exc |-> "KeyError"]
                  /\ Installed
                  /\ ttfont.statValues = WrittenBefore(1, 1, FirstUnmatched)

\* the failure in update_stat, after records of earlier instances were written
PartialStatWitness ==
    /\ Unmatched # {}
    /\ pc = "failed"
    /\ err.in = "update_stat"
    /\ Installed
    /\ ttfont.statValues # <<>>
    /\ ttfont.statValues # loaded.statValues

====
